---- MODULE Spec2Model ----
(***************************************************************************)
(* Model of python-simple-etl: the SQLite report store                     *)
(* (db/sqlite_service.py), the threat classifier                           *)
(* (services/ThreatAssessmentService.py) and the verification script       *)
(* (verify_database.py).                                                   *)
(*                                                                         *)
(* SQLite itself is the environment.  What the model takes from it:        *)
(*  - sqlite3.connect creates the database file when it is absent;         *)
(*  - CREATE TABLE (DDL) is committed at once, an INSERT opens an implicit *)
(*    transaction that holds the write lock until commit or rollback;      *)
(*  - rows of an open transaction are visible to no other connection;      *)
(*  - AUTOINCREMENT hands out rowids above every rowid ever committed;     *)
(*  - binding a Python int above the 64-bit range raises OverflowError;    *)
(*  - a statement meeting another connection's write lock may wait or      *)
(*    raise OperationalError, a commit may raise OperationalError;         *)
(*  - closing a connection discards its open transaction;                  *)
(*  - the order of rows whose ORDER BY terms are equal is undefined.       *)
(***************************************************************************)
EXTENDS Integers, Sequences, FiniteSets

VARIABLES
    dbFile,       \* TRUE when the database file exists
    tableExists,  \* TRUE when the file holds the report table
    table,        \* committed rows of report, in rowid order
    seq,          \* largest rowid ever committed (sqlite_sequence)
    lockHolder,   \* the caller whose connection holds the write lock, or NoProc
    constructed,  \* TRUE once some ReportsRepository.__init__ has returned
    pc,           \* per caller: its place inside get_connection
    call,         \* per caller: the call it runs or ran last, and its outcome
    ncalls,       \* repository calls started so far
    txn,          \* per caller: rows inserted by its open transaction
    done,         \* per caller: parameter sets executemany has executed
    err,          \* per caller: the exception raised inside the scope, or NoError
    retval,       \* per caller: value of the return expression (lastrowid, rowcount)
    events,       \* per caller: connection events of the call it runs or ran last
    vpc,          \* the verification script's place in main
    reports,      \* the list get_all_reports returned
    verdict,      \* what verify_threat_levels returned for reports
    outcome,      \* what main reported
    ad,           \* the AccessDetails given to assess_threat_level
    draw,         \* the value random.randint(1, 100) returned in that call
    level         \* what that call returned or raised

storeVars == <<dbFile, tableExists, table, seq>>
connVars == <<lockHolder, constructed, pc, call, ncalls, txn, done, err, retval, events>>
verifierVars == <<vpc, reports, verdict, outcome>>
assessVars == <<ad, draw, level>>
vars == <<dbFile, tableExists, table, seq, lockHolder, constructed, pc, call,
          ncalls, txn, done, err, retval, events, vpc, reports, verdict,
          outcome, ad, draw, level>>

----------------------------------------------------------------------------
(* Bounds *)

\* Repository calls started in one behaviour.
MaxCalls == 3

\* Longest list handed to insert_reports_batch.
MaxBatch == 2

\* Rows the table may hold.
MaxRows == 2

\* Stands for 2^63 - 1, the largest integer SQLite binds; kept small so that
\* a report just above it is among the inputs.
MaxSqliteInt == 2

\* The callers of the repository, each on its own connection.
Procs == {"w1", "w2"}
NoProc == "nobody"
NoError == "none"
\* Optional[int]: None is the empty sequence, a timestamp t is <<t>>.
None == <<>>

----------------------------------------------------------------------------
(* model/threat_level.py, model/report.py *)

ThreatLevel == {"LOW", "MEDIUM", "HIGH", "CRITICAL"}

\* Variant: incidents_count declared without ge=0.
ReportValidNoGe(raw) == raw.threat_level \in ThreatLevel

\* Field(..., ge=0) and the enum-typed field: what Report(...) accepts.
ReportValid(raw) ==
    /\ raw.threat_level \in ThreatLevel
    /\ raw.incidents_count >= 0

\* Field values a caller may try to build a Report from.
RawReports ==
    { [threat_level |-> "CRITICAL", incidents_count |-> 1,
       first_incident |-> <<1>>, last_incident |-> <<2>>],
      [threat_level |-> "HIGH", incidents_count |-> 0,
       first_incident |-> None, last_incident |-> None],
      [threat_level |-> "LOW", incidents_count |-> MaxSqliteInt + 1,
       first_incident |-> <<2>>, last_incident |-> <<2>>],
      [threat_level |-> "MEDIUM", incidents_count |-> -1,
       first_incident |-> None, last_incident |-> None],
      [threat_level |-> "SEVERE", incidents_count |-> 1,
       first_incident |-> <<1>>, last_incident |-> <<1>>] }

Reports == {raw \in RawReports : ReportValid(raw)}

Batches == UNION {[1..n -> Reports] : n \in 0..MaxBatch}

----------------------------------------------------------------------------
(* db/sqlite_service.py: what SQLite does for one statement *)

\* The tuple insert_report and insert_reports_batch bind:
\* (threat_level.value, incidents_count, first_incident, last_incident).
\* id is the rowid SQLite assigns.  call and of are history, not columns: the
\* call that inserted the row and the number of reports that call was given.
\* Variant: first_incident left out of the bound tuple.
BoundRowNoFirst(report, id, c) ==
    [id |-> id, threat_level |-> report.threat_level,
     incidents_count |-> report.incidents_count,
     first_incident |-> None, last_incident |-> report.last_incident,
     call |-> c.id, of |-> Len(c.args)]

BoundRow(report, id, c) ==
    [id |-> id, threat_level |-> report.threat_level,
     incidents_count |-> report.incidents_count,
     first_incident |-> report.first_incident,
     last_incident |-> report.last_incident,
     call |-> c.id, of |-> Len(c.args)]

\* Binding a Python int outside the 64-bit range raises OverflowError.
BindOverflows(report) == report.incidents_count > MaxSqliteInt

\* INTEGER PRIMARY KEY AUTOINCREMENT: one above the largest rowid so far,
\* the rows of the open transaction included.
NextRowid(committedSeq, pending) == committedSeq + Len(pending) + 1

\* Another connection holds the write lock.
LockedByOther(p) == lockHolder \notin {NoProc, p}

NoCall == [id |-> 0, kind |-> "none", args |-> <<>>, status |-> "none",
           value |-> 0, exc |-> NoError]

Running(p) == call[p]

\* The call p runs ends: its outcome goes to the history.
Finish(p, status, value, exc) ==
    call' = [call EXCEPT ![p].status = status, ![p].value = value, ![p].exc = exc]

\* Rows the calls under way may still add: keeps the table within MaxRows.
RECURSIVE SumLen(_)
SumLen(S) ==
    IF S = {} THEN 0
    ELSE LET p == CHOOSE q \in S : TRUE
         IN  Len(call[p].args) + SumLen(S \ {p})

InFlight == SumLen({p \in Procs : pc[p] # "idle"})

Room(n) == Len(table) + InFlight + n <= MaxRows

\* A call starts: `conn = sqlite3.connect(self.db_path)` and the yield of
\* get_connection.  connect creates the file when it is absent.
Enter(p, kind, args) ==
    /\ pc[p] = "idle"
    /\ ncalls < MaxCalls
    /\ ncalls' = ncalls + 1
    /\ call' = [call EXCEPT ![p] = [id |-> ncalls + 1, kind |-> kind, args |-> args,
                                    status |-> "running", value |-> 0,
                                    exc |-> NoError]]
    /\ dbFile' = TRUE
    /\ pc' = [pc EXCEPT ![p] = "body"]
    /\ txn' = [txn EXCEPT ![p] = <<>>]
    /\ done' = [done EXCEPT ![p] = 0]
    /\ err' = [err EXCEPT ![p] = NoError]
    /\ retval' = [retval EXCEPT ![p] = 0]
    /\ events' = [events EXCEPT ![p] = <<"connect">>]

\* The statement in the with-body raised e: control goes to the except clause.
Raise(p, e) ==
    /\ err' = [err EXCEPT ![p] = e]
    /\ pc' = [pc EXCEPT ![p] = "except"]

----------------------------------------------------------------------------
(* ReportsRepository.__init__ and _initialize_database *)

Construct(p) ==
    /\ ~constructed
    /\ Enter(p, "init", <<>>)
    /\ UNCHANGED <<tableExists, table, seq, lockHolder, constructed>>
    /\ UNCHANGED verifierVars /\ UNCHANGED assessVars

\* cursor.execute("CREATE TABLE IF NOT EXISTS report ...")
CreateTable(p) ==
    /\ pc[p] = "body"
    /\ Running(p).kind = "init"
    /\ tableExists' = TRUE
    /\ pc' = [pc EXCEPT ![p] = "commit"]
    /\ UNCHANGED <<dbFile, table, seq, lockHolder, constructed, call, ncalls, txn, done,
                   err, retval, events>>
    /\ UNCHANGED verifierVars /\ UNCHANGED assessVars

----------------------------------------------------------------------------
(* insert_report *)

InsertReport(p) ==
    /\ constructed
    /\ \E raw \in RawReports :
          /\ ReportValid(raw)
          /\ Room(1)
          /\ Enter(p, "insert", <<raw>>)
    /\ UNCHANGED <<tableExists, table, seq, lockHolder, constructed>>
    /\ UNCHANGED verifierVars /\ UNCHANGED assessVars

\* One parameter set of an INSERT: bind, take the write lock, insert.
ExecuteInsert(p, report) ==
    \/ /\ BindOverflows(report)
       /\ Raise(p, "OverflowError")
       /\ UNCHANGED <<txn, lockHolder, done>>
    \/ /\ ~BindOverflows(report)
       /\ LockedByOther(p)
       /\ Raise(p, "OperationalError")
       /\ UNCHANGED <<txn, lockHolder, done>>
    \/ /\ ~BindOverflows(report)
       /\ ~LockedByOther(p)
       /\ lockHolder' = p
       /\ txn' = [txn EXCEPT ![p] =
                    Append(@, BoundRow(report, NextRowid(seq, @), call[p]))]
       /\ done' = [done EXCEPT ![p] = @ + 1]
       /\ IF done[p] + 1 = Len(Running(p).args)
             THEN pc' = [pc EXCEPT ![p] = "commit"]
             ELSE UNCHANGED pc
       /\ UNCHANGED err

\* cursor.execute("INSERT INTO report ...") ; return cursor.lastrowid
InsertExecute(p) ==
    /\ pc[p] = "body"
    /\ Running(p).kind = "insert"
    /\ ExecuteInsert(p, Running(p).args[1])
    /\ retval' = [retval EXCEPT ![p] = IF txn'[p] = <<>> THEN 0
                                       ELSE txn'[p][Len(txn'[p])].id]
    /\ UNCHANGED <<dbFile, tableExists, table, seq, constructed, call, ncalls, events>>
    /\ UNCHANGED verifierVars /\ UNCHANGED assessVars

----------------------------------------------------------------------------
(* insert_reports_batch *)

InsertReportsBatch(p) ==
    /\ constructed
    /\ \E batch \in Batches :
          /\ Room(Len(batch))
          /\ Enter(p, "batch", batch)
    /\ UNCHANGED <<tableExists, table, seq, lockHolder, constructed>>
    /\ UNCHANGED verifierVars /\ UNCHANGED assessVars

\* cursor.executemany("INSERT INTO report ...", data): the next parameter
\* set; rowcount adds up the rows inserted.  With no parameter set left the
\* statement is over and rowcount is returned.
ExecuteMany(p) ==
    /\ pc[p] = "body"
    /\ Running(p).kind = "batch"
    /\ IF Len(Running(p).args) = 0
          THEN /\ pc' = [pc EXCEPT ![p] = "commit"]
               /\ UNCHANGED <<txn, lockHolder, done, err>>
          ELSE ExecuteInsert(p, Running(p).args[done[p] + 1])
    /\ retval' = [retval EXCEPT ![p] = done'[p]]
    /\ UNCHANGED <<dbFile, tableExists, table, seq, constructed, call, ncalls, events>>
    /\ UNCHANGED verifierVars /\ UNCHANGED assessVars

----------------------------------------------------------------------------
(* get_connection: after the yield *)

\* Variant: only the first pending row becomes durable.
CommitKeepsFirst(tbl, pending) ==
    IF pending = <<>> THEN tbl ELSE Append(tbl, pending[1])

\* What conn.commit() makes durable.
Committed(tbl, pending) == tbl \o pending

ReleaseLock(p) == lockHolder' = IF lockHolder = p THEN NoProc ELSE lockHolder

\* conn.commit() succeeds.
Commit(p) ==
    /\ pc[p] = "commit"
    /\ table' = Committed(table, txn[p])
    /\ seq' = seq + Len(txn[p])
    /\ txn' = [txn EXCEPT ![p] = <<>>]
    /\ ReleaseLock(p)
    /\ events' = [events EXCEPT ![p] = Append(@, "commit")]
    /\ pc' = [pc EXCEPT ![p] = "finally"]
    /\ UNCHANGED <<dbFile, tableExists, constructed, call, ncalls, done, err, retval>>
    /\ UNCHANGED verifierVars /\ UNCHANGED assessVars

\* conn.commit() raises: the transaction stays open, control goes to except.
CommitFails(p) ==
    /\ pc[p] = "commit"
    /\ Raise(p, "OperationalError")
    /\ UNCHANGED <<dbFile, tableExists, table, seq, lockHolder, constructed, call,
                   ncalls, txn, done, retval, events>>
    /\ UNCHANGED verifierVars /\ UNCHANGED assessVars

\* Variant: the except clause re-raises without rolling back.
RollbackSkipped(p) ==
    /\ pc[p] = "except"
    /\ pc' = [pc EXCEPT ![p] = "finally"]
    /\ UNCHANGED <<dbFile, tableExists, table, seq, lockHolder, constructed, call,
                   ncalls, txn, done, err, retval, events>>
    /\ UNCHANGED verifierVars /\ UNCHANGED assessVars

\* Variant: the except clause commits where it should roll back.
CommitOnError(p) ==
    /\ pc[p] = "except"
    /\ table' = table \o txn[p]
    /\ seq' = seq + Len(txn[p])
    /\ txn' = [txn EXCEPT ![p] = <<>>]
    /\ ReleaseLock(p)
    /\ events' = [events EXCEPT ![p] = Append(@, "rollback")]
    /\ pc' = [pc EXCEPT ![p] = "finally"]
    /\ UNCHANGED <<dbFile, tableExists, constructed, call, ncalls, done, err, retval>>
    /\ UNCHANGED verifierVars /\ UNCHANGED assessVars

\* except Exception as e: conn.rollback(); raise e
Rollback(p) ==
    /\ pc[p] = "except"
    /\ txn' = [txn EXCEPT ![p] = <<>>]
    /\ ReleaseLock(p)
    /\ events' = [events EXCEPT ![p] = Append(@, "rollback")]
    /\ pc' = [pc EXCEPT ![p] = "finally"]
    /\ UNCHANGED <<dbFile, tableExists, table, seq, constructed, call, ncalls, done,
                   err, retval>>
    /\ UNCHANGED verifierVars /\ UNCHANGED assessVars

\* finally: conn.close(); then the call returns its value or the exception
\* `raise e` re-raised leaves it.  Closing discards an open transaction.
Close(p) ==
    /\ pc[p] = "finally"
    /\ txn' = [txn EXCEPT ![p] = <<>>]
    /\ ReleaseLock(p)
    /\ events' = [events EXCEPT ![p] = Append(@, "close")]
    /\ pc' = [pc EXCEPT ![p] = "idle"]
    /\ IF err[p] = NoError
          THEN /\ Finish(p, "returned", retval[p], NoError)
               /\ constructed' = (constructed \/ Running(p).kind = "init")
          ELSE /\ Finish(p, "raised", 0, err[p])
               /\ UNCHANGED constructed
    /\ done' = [done EXCEPT ![p] = 0]
    /\ retval' = [retval EXCEPT ![p] = 0]
    /\ UNCHANGED <<dbFile, tableExists, table, seq, ncalls, err>>
    /\ UNCHANGED verifierVars /\ UNCHANGED assessVars

----------------------------------------------------------------------------
(* verify_database.py *)

\* CASE threat_level WHEN 'CRITICAL' THEN 1 ... END; no WHEN matches: NULL,
\* which sorts before every number.
SeverityRank(l) ==
    CASE l = "CRITICAL" -> 1
      [] l = "HIGH" -> 2
      [] l = "MEDIUM" -> 3
      [] l = "LOW" -> 4
      [] OTHER -> 0

Permutations(n) == {f \in [1..n -> 1..n] : \A i, j \in 1..n : f[i] = f[j] => i = j}

\* SELECT ... FROM report ORDER BY CASE threat_level ... END: every order of
\* the rows that ascends in the CASE value.  The statement names no second
\* term, so rows of one level come in any order.
OrderedBySeverity(tbl) ==
    { [i \in 1..Len(tbl) |-> tbl[f[i]]] : f \in
        { g \in Permutations(Len(tbl)) :
            \A i \in 1..Len(tbl) - 1 :
                SeverityRank(tbl[g[i]].threat_level)
                    <= SeverityRank(tbl[g[i + 1]].threat_level) } }

\* Variant: complete as soon as any level is present.
VerifyPresentOnly(rs) ==
    LET present == {rs[i].threat_level : i \in 1..Len(rs)}
    IN  [is_complete |-> Cardinality(present) > 0, missing |-> ThreatLevel \ present]

\* verify_threat_levels(reports)
VerifyThreatLevels(rs) ==
    LET expected_levels == ThreatLevel
        present_levels == {rs[i].threat_level : i \in 1..Len(rs)}
        missing_levels == expected_levels \ present_levels
    IN  [is_complete |-> Cardinality(missing_levels) = 0, missing |-> missing_levels]

NoVerdict == [is_complete |-> FALSE, missing |-> {"none"}]

\* The script runs main once and exits.
\* main: reports = get_all_reports().  sqlite3.connect creates the file when
\* it is absent; without the table the SELECT raises OperationalError, which
\* main reports.
MainGetAllReports ==
    /\ vpc = "start"
    /\ dbFile' = TRUE
    /\ IF tableExists
          THEN /\ reports' \in OrderedBySeverity(table)
               /\ vpc' = "got"
               /\ outcome' = "running"
          ELSE /\ reports' = <<>>
               /\ vpc' = "exit"
               /\ outcome' = "OperationalError"
    /\ verdict' = NoVerdict
    /\ UNCHANGED <<tableExists, table, seq>>
    /\ UNCHANGED connVars /\ UNCHANGED assessVars

\* main after get_all_reports: `if not reports: return`, else
\* verify_threat_levels(reports) and the summary.
MainVerify ==
    /\ vpc = "got"
    /\ IF reports = <<>>
          THEN /\ outcome' = "no reports"
               /\ UNCHANGED verdict
          ELSE /\ verdict' = VerifyThreatLevels(reports)
               /\ outcome' = IF verdict'.is_complete THEN "success" ELSE "warning"
    /\ vpc' = "exit"
    /\ reports' = <<>>
    /\ UNCHANGED storeVars /\ UNCHANGED connVars /\ UNCHANGED assessVars

----------------------------------------------------------------------------
(* services/ThreatAssessmentService.py; a str is the sequence of its characters *)

critical_ips_prefixes == { <<"1", "4", "1", ".">>, <<"6", "8", ".">> }

high_risk_resources ==
    { <<"/", "a", "d", "m", "i", "n">>,
      <<"/", "r", "e", "p", "o", "r", "t", "s">>,
      <<"/", "s", "e", "t", "t", "i", "n", "g", "s">> }

low_rist_resources ==
    { <<"/", "d", "a", "s", "h", "b", "o", "a", "r", "d">>,
      <<"/", "p", "r", "o", "f", "i", "l", "e">> }

\* random.randint(1, 100) <= 5
RandMax == 100
FailurePercent == 5

startswith(s, prefix) ==
    /\ Len(prefix) <= Len(s)
    /\ SubSeq(s, 1, Len(prefix)) = prefix

endswith(s, suffix) ==
    /\ Len(suffix) <= Len(s)
    /\ SubSeq(s, Len(s) - Len(suffix) + 1, Len(s)) = suffix

\* Variant: the high-risk rule tested before the critical prefixes.
ClassifyResourceFirst(a) ==
    IF \E res \in high_risk_resources : endswith(a.accessed_resource, res)
        THEN "HIGH"
    ELSE IF \E q \in critical_ips_prefixes : startswith(a.ip_address, q)
        THEN "CRITICAL"
    ELSE IF \E res \in low_rist_resources : endswith(a.accessed_resource, res)
        THEN "LOW"
    ELSE "MEDIUM"

\* The if/elif chain of assess_threat_level.
Classify(a) ==
    IF \E q \in critical_ips_prefixes : startswith(a.ip_address, q)
        THEN "CRITICAL"
    ELSE IF \E res \in high_risk_resources : endswith(a.accessed_resource, res)
        THEN "HIGH"
    ELSE IF \E res \in low_rist_resources : endswith(a.accessed_resource, res)
        THEN "LOW"
    ELSE "MEDIUM"

\* Variant: the critical rule tested before the draw.
AssessRulesBeforeFailure(a, d) ==
    IF Classify(a) = "CRITICAL" THEN "CRITICAL"
    ELSE IF d <= FailurePercent THEN "MLServiceError"
    ELSE Classify(a)

\* The whole call: the draw is compared first, then the rules.
assess_threat_level(a, d) ==
    IF d <= FailurePercent THEN "MLServiceError" ELSE Classify(a)

IpInputs ==
    { <<"1", "4", "1", ".", "5">>,
      <<"6", "8", ".", "1">>,
      <<"1", "4", ".", "1">>,
      <<"1", "6", "8", ".", "2">>,
      <<"1", "0", ".", "6", "8", ".">>,
      <<"1", "4", "1", ".">>,
      <<>> }

ResourceInputs ==
    { <<"/", "a", "d", "m", "i", "n">>,
      <<"/", "r", "e", "p", "o", "r", "t", "s">>,
      <<"/", "s", "e", "t", "t", "i", "n", "g", "s">>,
      <<"/", "d", "a", "s", "h", "b", "o", "a", "r", "d">>,
      <<"/", "p", "r", "o", "f", "i", "l", "e">>,
      <<"/", "a", "d", "m", "i", "n", "/", "x">>,
      <<"/", "h", "o", "m", "e">>,
      <<>>,
      <<"a", "d", "m", "i", "n">>,
      <<"/", "x", "/", "s", "e", "t", "t", "i", "n", "g", "s">>,
      <<"/", "p", "r", "o", "f", "i", "l", "e", "/", "a", "d", "m", "i", "n">>,
      <<"/", "a", "d", "m", "i", "n", "/", "p", "r", "o", "f", "i", "l", "e">>,
      <<"d", "a", "s", "h", "b", "o", "a", "r", "d">> }

AccessDetails == [ip_address : IpInputs, accessed_resource : ResourceInputs]

NoAccess == [ip_address |-> <<>>, accessed_resource |-> <<>>]

\* One call of assess_threat_level: ad is the argument, draw what
\* random.randint(1, 100) returns in it.
Assess ==
    /\ level = "called"
    /\ level' = assess_threat_level(ad, draw)
    /\ UNCHANGED <<ad, draw>>
    /\ UNCHANGED storeVars /\ UNCHANGED connVars /\ UNCHANGED verifierVars

----------------------------------------------------------------------------
(* verify_threat_levels as a function of any list of rows *)

\* Longest list given to verify_threat_levels.
MaxListing == 4

ListingRows ==
    { [id |-> 0, threat_level |-> l, incidents_count |-> c,
       first_incident |-> None, last_incident |-> None, call |-> 0, of |-> 0] :
        l \in ThreatLevel, c \in {0, 1} }

Listings == UNION {[1..n -> ListingRows] : n \in 0..MaxListing}

VerifyCall ==
    /\ vpc = "call"
    /\ verdict' = VerifyThreatLevels(reports)
    /\ vpc' = "returned"
    /\ UNCHANGED <<reports, outcome>>
    /\ UNCHANGED storeVars /\ UNCHANGED connVars /\ UNCHANGED assessVars

----------------------------------------------------------------------------
(* Specifications *)

InitStore ==
    /\ dbFile = FALSE
    /\ tableExists = FALSE
    /\ table = <<>>
    /\ seq = 0
    /\ lockHolder = NoProc
    /\ constructed = FALSE
    /\ pc = [p \in Procs |-> "idle"]
    /\ call = [p \in Procs |-> NoCall]
    /\ ncalls = 0
    /\ txn = [p \in Procs |-> <<>>]
    /\ done = [p \in Procs |-> 0]
    /\ err = [p \in Procs |-> NoError]
    /\ retval = [p \in Procs |-> 0]
    /\ events = [p \in Procs |-> <<>>]

InitVerifier ==
    /\ vpc = "start"
    /\ reports = <<>>
    /\ verdict = NoVerdict
    /\ outcome = "none"

InitNoAssess ==
    /\ ad = NoAccess
    /\ draw = 0
    /\ level = "none"

Init == InitStore /\ InitVerifier /\ InitNoAssess

\* assess_threat_level is called once with any of the inputs and any draw.
InitAssess ==
    /\ InitStore
    /\ InitVerifier
    /\ ad \in AccessDetails
    /\ draw \in 1..RandMax
    /\ level = "called"

\* verify_threat_levels is called once with any of the listings.
InitVerify ==
    /\ InitStore
    /\ InitNoAssess
    /\ vpc = "call"
    /\ reports \in Listings
    /\ verdict = NoVerdict
    /\ outcome = "none"

\* The store, its callers and the verification script.
Next ==
    \/ \E p \in Procs : Construct(p)
    \/ \E p \in Procs : CreateTable(p)
    \/ \E p \in Procs : InsertReport(p)
    \/ \E p \in Procs : InsertExecute(p)
    \/ \E p \in Procs : InsertReportsBatch(p)
    \/ \E p \in Procs : ExecuteMany(p)
    \/ \E p \in Procs : Commit(p)
    \/ \E p \in Procs : CommitFails(p)
    \/ \E p \in Procs : Rollback(p)
    \/ \E p \in Procs : Close(p)
    \/ MainGetAllReports
    \/ MainVerify

Spec == Init /\ [][Next]_vars

\* The classifier alone.
NextAssess == Assess

SpecAssess == InitAssess /\ [][NextAssess]_vars

\* verify_threat_levels alone.
NextVerify == VerifyCall

SpecVerify == InitVerify /\ [][NextVerify]_vars

----------------------------------------------------------------------------
(* Properties *)

\* Rows of a list that call c inserted.
RowsOf(rows, c) == {i \in 1..Len(rows) : rows[i].call = c}

IsPrefix(a, b) == Len(a) <= Len(b) /\ SubSeq(b, 1, Len(a)) = a

\* C1: insert_reports_batch is all-or-nothing.  A batch call that returned
\* returned the number of reports it was given and the table holds exactly
\* that many rows of it; a batch call that raised left no row of it in the
\* table; while it runs the table holds none of its rows or all of them.
BatchAllOrNothing ==
    \A p \in Procs :
        call[p].kind = "batch" =>
            LET n == Cardinality(RowsOf(table, call[p].id))
                N == Len(call[p].args)
            IN  /\ call[p].status = "returned" => call[p].value = N /\ n = N
                /\ call[p].status = "raised" => n = 0
                /\ call[p].status = "running" => n = 0 \/ (n = N /\ pc[p] = "finally")

\* A batch of two whose second report cannot be bound failed after its first
\* row had been inserted.
BatchFailedAtSecondReport ==
    \E p \in Procs :
        /\ call[p].kind = "batch"
        /\ call[p].status = "raised"
        /\ call[p].exc = "OverflowError"
        /\ Len(call[p].args) = 2
        /\ ~BindOverflows(call[p].args[1])
        /\ table # <<>>

\* C2: no read sees a proper part of a batch.  In the committed table, which
\* is what any connection reads, and in the list get_all_reports returned,
\* the rows of one call are none or as many as the call was given.
NoPartialBatchObserved ==
    /\ \A i \in 1..Len(table) :
          Cardinality(RowsOf(table, table[i].call)) = table[i].of
    /\ \A i \in 1..Len(reports) :
          Cardinality(RowsOf(reports, reports[i].call)) = reports[i].of

\* get_all_reports returned while a batch of two had one row inserted and
\* not committed.
ReadDuringBatch ==
    /\ vpc = "got"
    /\ \E p \in Procs :
          /\ call[p].kind = "batch"
          /\ pc[p] = "body"
          /\ Len(call[p].args) = 2
          /\ Len(txn[p]) = 1
          /\ RowsOf(reports, call[p].id) = {}

RoundTrip ==
    /\ \A i, j \in 1..Len(table) : table[i].id = table[j].id => i = j
    /\ \A p \in Procs :
          (call[p].kind = "insert" /\ call[p].status = "returned") =>
              \E i \in 1..Len(table) :
                  /\ table[i].id = call[p].value
                  /\ table[i].threat_level = call[p].args[1].threat_level
                  /\ table[i].incidents_count = call[p].args[1].incidents_count
                  /\ table[i].first_incident = call[p].args[1].first_incident
                  /\ table[i].last_incident = call[p].args[1].last_incident

\* An insert_report of a report with timestamps returned the second id.
InsertedSecondRow ==
    \E p \in Procs :
        /\ call[p].kind = "insert"
        /\ call[p].status = "returned"
        /\ call[p].value = 2
        /\ call[p].args[1].first_incident # None

\* C9: schema invariant.  Every committed row has one of the four literals
\* as threat_level and an incidents_count that is at least 0.
SchemaInvariant ==
    \A i \in 1..Len(table) :
        /\ table[i].threat_level \in {"LOW", "MEDIUM", "HIGH", "CRITICAL"}
        /\ table[i].incidents_count \in Nat

\* Rows were committed, one of them with no incident, and a call failed.
RowsAndFailedCall ==
    /\ \E i \in 1..Len(table) : table[i].incidents_count = 0
    /\ \E p \in Procs : call[p].status = "raised" /\ call[p].kind # "init"

VerifierReadOnly ==
    [][vpc' # vpc => UNCHANGED <<dbFile, tableExists, table, seq>>]_vars

----------------------------------------------------------------------------
(* Properties of verify_threat_levels *)

\* C6: missing is the four levels less the levels of the rows, and
\* is_complete says that missing is empty.
VerifyCompleteness ==
    vpc = "returned" =>
        /\ \A l \in {"LOW", "MEDIUM", "HIGH", "CRITICAL"} :
              l \in verdict.missing <=>
                  ~ \E i \in 1..Len(reports) : reports[i].threat_level = l
        /\ verdict.missing \subseteq {"LOW", "MEDIUM", "HIGH", "CRITICAL"}
        /\ verdict.is_complete <=> verdict.missing = {}
        /\ {reports[i].threat_level : i \in 1..Len(reports)} = {"HIGH", "LOW"}
              => verdict = [is_complete |-> FALSE, missing |-> {"MEDIUM", "CRITICAL"}]

\* A listing with more than one HIGH row, a LOW row and nothing else was
\* verified.
VerifiedHighAndLow ==
    /\ vpc = "returned"
    /\ verdict.missing = {"MEDIUM", "CRITICAL"}
    /\ Len(reports) > 2
    /\ \E i \in 1..Len(reports) : reports[i].incidents_count = 0

----------------------------------------------------------------------------
(* Properties of assess_threat_level *)

\* s begins with q, said without the operators the model computes with.
Begins(s, q) == \E k \in 0..Len(s) : Len(q) = k /\ \A i \in 1..k : s[i] = q[i]

Ends(s, x) ==
    \E k \in 0..Len(s) : Len(x) = k /\ \A i \in 1..k : s[Len(s) - k + i] = x[i]

CriticalIp == \E q \in critical_ips_prefixes : Begins(ad.ip_address, q)
HighRisk == \E x \in high_risk_resources : Ends(ad.accessed_resource, x)
LowRisk == \E x \in low_rist_resources : Ends(ad.accessed_resource, x)

\* C4: a call in which the failure did not fire returns the level of the
\* first rule that matches: CRITICAL for a critical prefix, else HIGH for a
\* high-risk suffix, else LOW for a low-risk suffix, else MEDIUM.
FirstMatchWins ==
    (level \notin {"called", "none", "MLServiceError"}) =>
        /\ level \in {"LOW", "MEDIUM", "HIGH", "CRITICAL"}
        /\ CriticalIp => level = "CRITICAL"
        /\ (~CriticalIp /\ HighRisk) => level = "HIGH"
        /\ (~CriticalIp /\ ~HighRisk /\ LowRisk) => level = "LOW"
        /\ (~CriticalIp /\ ~HighRisk /\ ~LowRisk) => level = "MEDIUM"

\* A critical address asked for a high-risk resource and got CRITICAL.
CriticalBeatsHigh ==
    /\ level = "CRITICAL"
    /\ HighRisk

====
